---- MODULE Spec2Model ----
(***************************************************************************)
(* State-machine model of the Shopify -> Notion sync scripts.              *)
(*                                                                         *)
(*   src/sync-graphql.js   1-369   GraphQL product sync                    *)
(*   src/sync-graphql.js 371-639   REST product sync (legacy)              *)
(*   src/unnamed/part_002          REST product + order sync               *)
(*   src/unnamed/part_000          search CLI over both systems            *)
(*                                                                         *)
(* The Shopify collection (source) and the Notion database (store) are the *)
(* environment; one step of the model is one await of the scripts.         *)
(***************************************************************************)
EXTENDS Integers, Sequences, FiniteSets, TLC

(***************************************************************************)
(* Bounds of the model.                                                    *)
(***************************************************************************)
MaxId == 2          \* external ids are 1..MaxId
MaxLen == 2         \* longest source collection
MaxRuns == 2        \* sync runs per behaviour
MaxRetries == 1     \* 429 answers the source gives to one request
MaxOrders == 1      \* longest order collection
PageSize == 1       \* records per page (the scripts ask for 250)
MaxWaited == 350    \* delays since a write are told apart up to this (ms)

(***************************************************************************)
(* Values.  A nullable JavaScript value is a sequence of length <= 1.      *)
(***************************************************************************)
NULL == <<>>
Some(x) == <<x>>

Min(a, b) == IF a < b THEN a ELSE b

\* the decimal string of an id: "gid://shopify/Product/<n>".split('/').pop()
\* on the GraphQL path, id.toString() on the REST path
IdString(n) == CASE n = 1 -> "1" [] n = 2 -> "2" [] n = 3 -> "3" [] OTHER -> "n"

\* the value parseFloat gives for a string that is no number
NaN == -1

\* parseFloat over the price strings of the model
parseFloat(s) ==
  CASE s = "20.00" -> 20 [] s = "35.00" -> 35 [] s = "0.00" -> 0
    [] OTHER -> NaN

(***************************************************************************)
(* Source records.                                                         *)
(*   id 0 stands for a record without an id (product.id undefined);        *)
(*   variantsDefined / collectionsDefined tell whether the record carries  *)
(*   the list at all.                                                      *)
(***************************************************************************)
\* a record as the source serves it: with a status and a default variant
\* that has a compare-at price, or with neither
WellFormed ==
  { [ id |-> i, title |-> "A", status |-> Some("ACTIVE"),
      variants |-> << [ compareAtPrice |-> Some("20.00") ] >>,
      variantsDefined |-> TRUE, collectionsDefined |-> TRUE ] : i \in 1..MaxId }
  \cup
  { [ id |-> i, title |-> "A", status |-> NULL, variants |-> <<>>,
      variantsDefined |-> TRUE, collectionsDefined |-> TRUE ] : i \in 1..MaxId }

Malformed ==
  { [ id |-> 0, title |-> "A", status |-> NULL, variants |-> <<>>,
      variantsDefined |-> TRUE, collectionsDefined |-> TRUE ],
    [ id |-> 1, title |-> "A", status |-> NULL, variants |-> <<>>,
      variantsDefined |-> FALSE, collectionsDefined |-> TRUE ],
    [ id |-> 1, title |-> "A", status |-> NULL, variants |-> <<>>,
      variantsDefined |-> TRUE, collectionsDefined |-> FALSE ] }

Products == WellFormed \cup Malformed

SeqUpTo(S, n) == UNION { [1..k -> S] : k \in 0..n }

(***************************************************************************)
(* Target records (Notion pages).                                          *)
(***************************************************************************)
PropNames == { "Product Name", "Shopify Product ID", "Compare At Price",
               "Status", "Last Synced At" }

\* a lookup that filters on the wrong property
databasesQuery_WrongProperty(st, ext) ==
  { i \in 1..Len(st) : st[i].props["Product Name"] = Some(ext) }

\* notion.databases.query with the filter 'Shopify Product ID' equals ext:
\* the pages of the products database that match
databasesQuery(st, ext) ==
  { i \in 1..Len(st) : st[i].props["Shopify Product ID"] = Some(ext) }

\* notion.pages.create: a new page holding the properties of the bag
pagesCreate(st, bag) ==
  Append(st, [ id |-> Len(st) + 1,
               props |-> [ k \in PropNames |->
                             IF k \in DOMAIN bag THEN bag[k] ELSE NULL ] ])

\* an update that archives the page and writes a new one in its place
pagesUpdate_Recreate(st, pid, bag) ==
  [ st EXCEPT ![pid] =
      [ id |-> Len(st) + 1,
        props |-> [ k \in PropNames |->
                      IF k \in DOMAIN bag THEN bag[k] ELSE st[pid].props[k] ] ] ]

\* notion.pages.update: the properties of the bag are overwritten, a
\* property the bag does not name keeps its value
pagesUpdate(st, pid, bag) ==
  [ st EXCEPT ![pid].props =
      [ k \in PropNames |-> IF k \in DOMAIN bag THEN bag[k] ELSE @[k] ] ]

(***************************************************************************)
(* Field mapper of the GraphQL sync.                                       *)
(***************************************************************************)
\* the statements between the lookup and the try block throw a TypeError
\* when the record has no variants or no collections list
MapThrows(p) == ~p.variantsDefined \/ ~p.collectionsDefined

defaultVariant(p) ==
  IF Len(p.variants) > 0 THEN p.variants[1] ELSE [compareAtPrice |-> NULL]

BaseProperties(p, now) ==
  [ k \in { "Product Name", "Shopify Product ID", "Compare At Price",
            "Last Synced At" } |->
      CASE k = "Product Name" -> Some(p.title)
        [] k = "Shopify Product ID" -> Some(IdString(p.id))
        [] k = "Compare At Price" ->
             IF defaultVariant(p).compareAtPrice # NULL
               THEN Some(parseFloat(defaultVariant(p).compareAtPrice[1]))
               ELSE NULL
        [] k = "Last Synced At" -> Some(now) ]

\* properties['Status'] is added only when the record has a status
GraphQLProperties(p, now) ==
  IF p.status # NULL
    THEN [ k \in DOMAIN BaseProperties(p, now) \cup {"Status"} |->
             IF k = "Status" THEN p.status ELSE BaseProperties(p, now)[k] ]
    ELSE BaseProperties(p, now)

(***************************************************************************)
(* Field mapper of the REST sync: no Status, no Compare At Price.          *)
(***************************************************************************)
RestProperties(p, now) ==
  [ k \in { "Product Name", "Shopify Product ID", "Last Synced At" } |->
      CASE k = "Product Name" -> Some(p.title)
        [] k = "Shopify Product ID" -> Some(IdString(p.id))
        [] k = "Last Synced At" -> Some(now) ]

(***************************************************************************)
(* Source orders and order pages (part_002).                               *)
(***************************************************************************)
\* the orders the source serves
Orders == [ id : 1..MaxOrders, lineItemsDefined : {TRUE} ]

\* order pages carry the external id in the title property Order ID
OrderPropNames == { "Order ID", "Last Synced At" }

OrderMatches(st, ext) ==
  { i \in 1..Len(st) : st[i].props["Order ID"] = Some(ext) }

\* order.line_items.map throws a TypeError when the order has no line items
OrderMapThrows(o) == ~o.lineItemsDefined

OrderProperties(o, now) ==
  [ k \in OrderPropNames |->
      IF k = "Order ID" THEN Some(IdString(o.id)) ELSE Some(now) ]

(***************************************************************************)
(* Strings of the search CLI and of the field mappers are sequences of     *)
(* characters.                                                             *)
(***************************************************************************)
LowerCase == { "a", "b", "e", "l", "m", "r", "s", "u" }
Digits == { "1" }

\* String.prototype.toLowerCase
toLowerCase(s) ==
  [ i \in 1..Len(s) |->
      CASE s[i] = "A" -> "a" [] s[i] = "B" -> "b" [] s[i] = "S" -> "s"
        [] OTHER -> s[i] ]

\* String.prototype.includes
includes(s, k) ==
  \E i \in 0..(Len(s) - Len(k)) : SubSeq(s, i + 1, i + Len(k)) = k

(***************************************************************************)
(* The search CLI (part_000): values.                                      *)
(***************************************************************************)
MaxHits == 2        \* longest list of plain products the source search returns
MaxKeyword == 1     \* longest enumerated keyword

SummerSale == << "s", "u", "m", "m", "e", "r", "-", "s", "a", "l", "e" >>
SummerSaleBang ==
  << "S", "u", "m", "m", "e", "r", " ", "S", "a", "l", "e", "!" >>

\* args[0]
Keywords ==
  SeqUpTo({ "a", "A", "b", "1", "-", " ", "!" }, MaxKeyword)
    \cup { SummerSale, SummerSaleBang }

Flags == { "--notion-only", "--shopify-only" }

\* the pattern with the i flag
matchHandle_IgnoreCase(keyword) ==
  /\ Len(keyword) > 0
  /\ \A i \in 1..Len(keyword) :
       toLowerCase(keyword)[i] \in LowerCase \cup Digits \cup { "-" }

\* keyword.match(/^[a-z0-9-]+$/)
matchHandle(keyword) ==
  /\ Len(keyword) > 0
  /\ \A i \in 1..Len(keyword) :
       keyword[i] \in LowerCase \cup Digits \cup { "-" }

\* the vendor test before the title test
determineMatchField_VendorFirst(product, keyword) ==
  LET lowerKeyword == toLowerCase(keyword)
      hit(f) == f # NULL /\ includes(toLowerCase(f[1]), lowerKeyword)
  IN  IF hit(product.vendor) THEN "vendor"
      ELSE IF hit(product.title) THEN "title"
      ELSE IF hit(product.productType) THEN "type"
      ELSE IF \E t \in 1..Len(product.tags) :
                includes(toLowerCase(product.tags[t]), lowerKeyword)
        THEN "tags"
      ELSE IF \E v \in 1..Len(product.variants) : hit(product.variants[v].sku)
        THEN "sku"
      ELSE "unknown"

\* determineMatchField over the node of the search query: title, vendor,
\* productType, tags and variants.edges[].node.sku
determineMatchField(product, keyword) ==
  LET lowerKeyword == toLowerCase(keyword)
      hit(f) == f # NULL /\ includes(toLowerCase(f[1]), lowerKeyword)
  IN  IF hit(product.title) THEN "title"
      ELSE IF hit(product.vendor) THEN "vendor"
      ELSE IF hit(product.productType) THEN "type"
      ELSE IF \E t \in 1..Len(product.tags) :
                includes(toLowerCase(product.tags[t]), lowerKeyword)
        THEN "tags"
      ELSE IF \E v \in 1..Len(product.variants) : hit(product.variants[v].sku)
        THEN "sku"
      ELSE "unknown"

\* the values a text field of a node takes
FieldValues == { NULL, Some(<< "A" >>), Some(<< "b" >>) }

\* nodes of the search query with every combination of fields
ShapedNodes ==
  [ id : { 1 }, title : FieldValues, vendor : FieldValues,
    productType : FieldValues,
    tags : { <<>>, << << "b" >>, << "A" >> >> },
    variants : { <<>>, << [ sku |-> NULL ] >>,
                 << [ sku |-> Some(<< "A" >>) ] >> } ]

PlainNode(i) ==
  [ id |-> i, title |-> Some(<< "A" >>), vendor |-> NULL, productType |-> NULL,
    tags |-> <<>>, variants |-> <<>> ]

\* response.products.edges: one node of any shape, or up to MaxHits plain
\* nodes of different products
ShopifyHits ==
  { << n >> : n \in ShapedNodes }
    \cup { [ k \in 1..Len(q) |-> PlainNode(q[k]) ] :
             q \in { r \in SeqUpTo(1..MaxId, MaxHits) :
                       \A a, b \in 1..Len(r) : r[a] = r[b] => a = b } }

\* searchShopifyProducts: the product built from a node
ShopifyProduct(node, keyword) ==
  [ source |-> "Shopify", id |-> IdString(node.id), title |-> node.title,
    type |-> node.productType, vendor |-> node.vendor, tags |-> node.tags,
    variants |-> node.variants,
    matchedOn |-> determineMatchField(node, keyword) ]

\* page.id
PageId(n) == CASE n = 1 -> "page-1" [] n = 2 -> "page-2" [] n = 3 -> "page-3"
               [] OTHER -> "page-n"

\* searchNotionProducts: the product built from a page
NotionProduct(page) ==
  [ source |-> "Notion",
    id |-> IF page.props["Shopify Product ID"] # NULL
             THEN page.props["Shopify Product ID"][1]
             ELSE PageId(page.id),
    matchedOn |-> "notion_search" ]

\* the elements of st at the positions S, in order
RECURSIVE Pick(_, _)
Pick(st, S) ==
  IF S = {} THEN <<>>
  ELSE LET m == CHOOSE m \in S : \A x \in S : m <= x
       IN  << st[m] >> \o Pick(st, S \ { m })

\* collection.products.edges mapped: the collection is not found, or holds
\* one product
CollectionHits ==
  { <<>>, << [ source |-> "Shopify Collection", id |-> "1" ] >> }

NoResults ==
  [ shopify |-> <<>>, notion |-> <<>>, collection |-> <<>>, summary |-> NULL ]

Ids(list) == { list[i].id : i \in 1..Len(list) }

\* results.summary with syncStatus
summary(res) ==
  LET inBothSystems == Ids(res.shopify) \cap Ids(res.notion)
  IN  [ totalResults |->
          Len(res.shopify) + Len(res.notion) + Len(res.collection),
        shopifyCount |-> Len(res.shopify),
        notionCount |-> Len(res.notion),
        collectionCount |-> Len(res.collection),
        syncStatus |->
          [ inBoth |-> Cardinality(inBothSystems),
            shopifyOnly |-> Len(res.shopify) - Cardinality(inBothSystems),
            notionOnly |-> Len(res.notion) - Cardinality(inBothSystems) ] ]

Request(to, op) == [ to |-> to, op |-> op ]

(***************************************************************************)
(* The field mappers of syncProductToNotion, one property at a time.       *)
(***************************************************************************)
DescLimit == 12     \* longest Description (the scripts cut at 2000)
MaxHtml == 5        \* longest enumerated HTML description
MaxTags == 2        \* longest enumerated tag list
MaxLevels == 2      \* most inventory levels reported for one product
MaxVariants == 2    \* most variants of one product

\* the caps of the GraphQL mapper on the Tags property
TagsLimit == 100
TagLength == 100

\* String.prototype.substring(a, b)
substring(s, a, b) == SubSeq(s, a + 1, Min(b, Len(s)))

\* String.prototype.replace(/<[^>]*>/g, ''): from the left, a '<' that has a
\* '>' after it is removed together with everything up to the first such '>'
RECURSIVE replaceTags(_)
replaceTags(s) ==
  IF s = <<>> THEN <<>>
  ELSE IF Head(s) = "<" /\ \E j \in 2..Len(s) : s[j] = ">"
    THEN LET j == CHOOSE j \in 2..Len(s) :
                    s[j] = ">" /\ \A k \in 2..(j - 1) : s[k] # ">"
         IN  replaceTags(SubSeq(s, j + 1, Len(s)))
    ELSE << Head(s) >> \o replaceTags(Tail(s))

\* 'Description': (html || '').replace(/<[^>]*>/g, '').substring(0, 2000),
\* the same expression in the GraphQL and the REST mapper
Description(html) ==
  substring(replaceTags(IF html = NULL THEN <<>> ELSE html[1]), 0, DescLimit)

\* String.prototype.trim
trim(s) ==
  LET ns == { i \in 1..Len(s) : s[i] # " " }
  IN  IF ns = {} THEN <<>>
      ELSE SubSeq(s, CHOOSE i \in ns : \A j \in ns : i <= j,
                     CHOOSE i \in ns : \A j \in ns : j <= i)

\* String.prototype.split(',')
split(s) ==
  LET commas == { i \in 1..Len(s) : s[i] = "," }
      nth(k) == IF k = 0 THEN 0
                ELSE IF k > Cardinality(commas) THEN Len(s) + 1
                ELSE CHOOSE c \in commas :
                       Cardinality({ d \in commas : d < c }) = k - 1
  IN  [ k \in 1..(Cardinality(commas) + 1) |->
          SubSeq(s, nth(k - 1) + 1, nth(k) - 1) ]

\* 'Tags' of the GraphQL mapper: product.tags is a list
Tags(tags) ==
  IF tags = NULL THEN <<>>
  ELSE [ i \in 1..Min(TagsLimit, Len(tags[1])) |->
           substring(trim(tags[1][i]), 0, TagLength) ]

\* 'Tags' of the REST mapper: product.tags is a comma-separated string, and
\* the empty string is falsy
RestTags(tags) ==
  IF tags = NULL \/ tags = Some(<<>>) THEN <<>>
  ELSE [ i \in 1..Len(split(tags[1])) |-> trim(split(tags[1])[i]) ]

\* parseFloat(x) || 0
OrZero(n) == IF n = NaN THEN 0 ELSE n

\* defaultVariant of a product: the first variant, or {}
firstVariant(variants) ==
  IF Len(variants) > 0 THEN variants[1]
  ELSE [ price |-> NULL, compareAtPrice |-> NULL ]

\* 'Default Variant Price' and 'Compare At Price' of the GraphQL mapper;
\* the empty string is falsy
Prices(variants) ==
  LET v == firstVariant(variants)
  IN  [ k \in { "Default Variant Price", "Compare At Price" } |->
          IF k = "Default Variant Price"
            THEN Some(IF v.price = NULL THEN 0
                      ELSE OrZero(parseFloat(v.price[1])))
            ELSE IF v.compareAtPrice # NULL /\ v.compareAtPrice[1] # ""
                   THEN Some(parseFloat(v.compareAtPrice[1]))
                   ELSE NULL ]

\* the REST mapper writes 'Default Variant Price' and has no
\* 'Compare At Price'
RestPrices(variants) ==
  LET v == firstVariant(variants)
  IN  [ k \in { "Default Variant Price" } |->
          Some(IF v.price = NULL THEN 0 ELSE OrZero(parseFloat(v.price[1]))) ]

RECURSIVE Sum(_)
Sum(q) == IF q = <<>> THEN 0 ELSE Head(q) + Sum(Tail(q))

\* level.available || 0
available(level) == IF level.available = NULL THEN 0 ELSE level.available[1]

\* calculateTotalInventory: the levels of every variant that reports an
\* inventory item with levels
calculateTotalInventory(variants) ==
  Sum([ i \in 1..Len(variants) |->
          IF variants[i].inventoryLevels # NULL
            THEN Sum([ l \in 1..Len(variants[i].inventoryLevels[1]) |->
                         available(variants[i].inventoryLevels[1][l]) ])
            ELSE 0 ])

\* getInventoryLevels: inventoryLevels[level.inventory_item_id] =
\* level.available || 0 for each level of the response, in order
getInventoryLevelsMap(levels) ==
  [ item \in { levels[l].inventory_item_id : l \in 1..Len(levels) } |->
      LET last == CHOOSE l \in 1..Len(levels) :
                    /\ levels[l].inventory_item_id = item
                    /\ \A m \in (l + 1)..Len(levels) :
                         levels[m].inventory_item_id # item
      IN  available(levels[last]) ]

\* 'Current Stock' of the REST scripts: the level of the default variant's
\* inventory item, and inventoryLevel || 0
RestCurrentStock(variants, levels) ==
  IF Len(variants) > 0
       /\ variants[1].inventory_item_id \in DOMAIN getInventoryLevelsMap(levels)
    THEN getInventoryLevelsMap(levels)[variants[1].inventory_item_id]
    ELSE 0

\* source values the mappers are applied to
HtmlChars == { "<", ">", "'", "a" }

Hello ==
  << "<", "p", ">", "H", "e", "l", "l", "o", " ", "<", "b", ">", "w", "o", "r",
     "l", "d", "<", "/", "b", ">", "<", "/", "p", ">" >>

LongText == [ i \in 1..(DescLimit + 2) |-> "a" ]

Descriptions ==
  { NULL } \cup
  { Some(h) : h \in SeqUpTo(HtmlChars, MaxHtml)
                      \cup { Hello, LongText, << "<", "a", ">" >> \o LongText } }

\* a tag of n characters that ends with c
TagOf(n, c) == [ i \in 1..n |-> IF i = n THEN c ELSE "a" ]

\* tag lists as the source keeps them: trimmed, no tag twice
TagLists ==
  { NULL } \cup
  { Some(q) : q \in { r \in SeqUpTo({ << "a" >>, << "b" >>,
                                       TagOf(TagLength + 1, "a"),
                                       TagOf(TagLength + 1, "b") }, MaxTags) :
                        \A a, b \in 1..Len(r) : r[a] = r[b] => a = b }
                    \cup { [ i \in 1..(TagsLimit + 1) |-> TagOf(i, "b") ] } }

\* the tags field of the REST product
TagStrings ==
  { NULL } \cup
  { Some(t) : t \in { <<>>, << "a" >>, << "a", ",", " ", "b" >>,
                      TagOf(TagLength + 1, "a"),
                      [ i \in 1..(2 * TagsLimit + 1) |->
                          IF i % 2 = 0 THEN "," ELSE "a" ] } }

PriceStrings == { "20.00", "35.00", "0.00", "abc", "" }

PricedVariants ==
  SeqUpTo([ price : { NULL } \cup { Some(x) : x \in PriceStrings },
            compareAtPrice : { NULL } \cup { Some(x) : x \in PriceStrings } ],
          1)

Availables == { NULL, Some(3), Some(4) }

\* variants of the GraphQL node: the quantity, and the levels of the
\* inventory item when the item reports them
StockedVariants ==
  { q \in SeqUpTo([ inventoryQuantity : { 5 },
                    inventoryLevels :
                      { NULL } \cup
                      { Some(l) : l \in SeqUpTo([ available : Availables ],
                                                MaxLevels) } ],
                  MaxVariants) : Len(q) > 0 }

\* variants of the REST product (different inventory items) and the levels
\* of the inventory_levels response, which are levels of those items
RestStocked ==
  { x \in [ variants :
              { q \in SeqUpTo([ inventory_item_id : 1..MaxVariants,
                                inventory_quantity : { 5 } ], MaxVariants) :
                  /\ Len(q) > 0
                  /\ \A a, b \in 1..Len(q) :
                       q[a].inventory_item_id = q[b].inventory_item_id
                         => a = b },
            levels : SeqUpTo([ inventory_item_id : 1..MaxVariants,
                               available : Availables ], MaxLevels) ] :
      \A l \in 1..Len(x.levels) :
        \E v \in 1..Len(x.variants) :
          x.variants[v].inventory_item_id = x.levels[l].inventory_item_id }

(***************************************************************************)
(* State.                                                                  *)
(***************************************************************************)
VARIABLES
  source,        \* the Shopify product collection
  store,         \* the Notion products database: a sequence of pages
  orderStore,    \* the Notion orders database
  pc,            \* position of the running script
  path,          \* the script that is running
  allProducts,   \* fetchAllProducts / getAllProducts: records fetched so far
  allOrders,     \* getRecentOrders: orders fetched so far
  hasNextPage,   \* fetchAllProducts: pageInfo.hasNextPage (REST: nextPageUrl set)
  cursor,        \* fetchAllProducts: pageInfo.endCursor, 0 for null
  retries,       \* shopifyAPICall: attempts left
  idx,           \* position of the for..of loop of syncShopifyToNotion
  existingPage,  \* syncProductToNotion: id of the page found, 0 for null
  properties,    \* syncProductToNotion: the property bag
  synced,        \* syncShopifyToNotion: the counter of the summary
  exitCode,      \* process.exit code, -1 while running
  clock,         \* new Date()
  runs,          \* runs started so far
  throttled,     \* 429 answers to the GraphQL request in flight
  lookups,       \* this run: databases.query calls issued
  writes,        \* this run: pages.create / pages.update calls issued
  issued,        \* this run: product creates issued, per external id
  landed,        \* this run: product creates that succeeded, per external id
  lookupFailed,  \* this run: positions whose lookup was rejected
  rejected,      \* this run: positions whose write was rejected
  fatal,         \* this run: where and why the run failed, <<>> if it has not
  startStore,    \* the products database when this run started
  lastOp,        \* the last write call of this run
  prev,          \* the outcome of the previous run
  requests,      \* this run: the cursor sent with each answered page request
  inFlight,      \* the Notion requests issued and not yet answered
  waited         \* this run: ms of delay() since the last write was answered

\* the search CLI (part_000)
VARIABLES
  args,          \* process.argv.slice(2): the keyword and the flags
  options,       \* main: skipShopify, skipNotion, skipCollections
  pending,       \* unifiedSearch: the searches of Promise.all not yet settled
  searchResults, \* unifiedSearch: results
  sent,          \* the requests sent so far, in order
  sp             \* position of the search CLI

\* the field mappers applied to one input
VARIABLES
  mapIn,         \* the mapper and the source value it is applied to
  mapOut         \* the mapped value, <<>> before the mapper has run

\* one call of a request helper (shopifyGraphQL, shopifyAPICall)
VARIABLES
  call,          \* the helper that was called and the request it was given
  trace,         \* what the helper has done: requests, responses, delays
  outcome,       \* what the helper returned or threw, <<>> while it runs
  hp             \* position of the helper

searchVars == << args, options, pending, searchResults, sent, sp >>
mapVars == << mapIn, mapOut >>
helperVars == << call, trace, outcome, hp >>

targetVars == << store, orderStore >>
fetchVars == << allProducts, allOrders, hasNextPage, cursor >>
callVars == << retries, throttled >>
loopVars == << idx, existingPage, properties, synced >>
endVars == << pc, exitCode, fatal >>
statVars == << lookups, writes, issued, landed, lookupFailed, rejected, lastOp >>
runVars == << path, runs, startStore, prev >>
wireVars == << requests, inFlight, waited >>

syncVars == << source, clock, targetVars, fetchVars, callVars, loopVars,
              endVars, statVars, runVars, wireVars >>

vars == << source, clock, targetVars, fetchVars, callVars, loopVars, endVars,
           statVars, runVars, wireVars, searchVars, mapVars, helperVars >>

\* "graphql": sync-graphql.js 1-369; "rest": part_002, whose product half is
\* also the script of sync-graphql.js 371-639 (a run that is served no order)
Scripts == { "graphql", "rest" }

NoOp == [ op |-> "none", ok |-> FALSE, pid |-> 0, at |-> 0 ]

\* a page written by an earlier sync of product 1
SeededPage ==
  [ id |-> 1,
    props |-> [ k \in PropNames |->
                  CASE k = "Product Name" -> Some("A")
                    [] k = "Shopify Product ID" -> Some("1")
                    [] k = "Compare At Price" -> Some(35)
                    [] k = "Status" -> Some("DRAFT")
                    [] k = "Last Synced At" -> Some(0) ] ]

\* the products databases the search runs over: pages with the external id
\* "1" (more than one after a duplicate create) and pages without one
SearchStores ==
  { [ k \in 1..Len(q) |->
        [ id |-> k,
          props |-> [ SeededPage.props EXCEPT !["Shopify Product ID"] = q[k] ] ] ] :
      q \in SeqUpTo({ NULL, Some("1") }, MaxLen) }

\* the search CLI is not running
SearchIdle ==
  /\ args = [ keyword |-> <<>>, flags |-> {} ]
  /\ options = [ skipShopify |-> FALSE, skipNotion |-> FALSE,
                 skipCollections |-> FALSE ]
  /\ pending = {}
  /\ searchResults = NoResults
  /\ sent = <<>>
  /\ sp = "off"

\* no mapper is applied
MapIdle ==
  /\ mapIn = [ fn |-> "none" ]
  /\ mapOut = <<>>

\* no request, and no response: an axios error without error.response
NoRequest == [ what |-> "", with |-> <<>> ]
NoResponse == [ status |-> 0, errors |-> FALSE, cost |-> NULL,
                retryAfter |-> NULL ]

\* no request helper is looked at
HelperIdle ==
  /\ call = [ fn |-> "none", request |-> NoRequest ]
  /\ trace = <<>>
  /\ outcome = <<>>
  /\ hp = "off"

Init ==
  /\ source \in SeqUpTo(Products, MaxLen)
  /\ store \in { <<>>, << SeededPage >> }
  /\ orderStore = <<>>
  /\ pc = "idle"
  /\ path = "graphql"
  /\ allProducts = <<>>
  /\ allOrders = <<>>
  /\ hasNextPage = FALSE
  /\ cursor = 0
  /\ retries = 0
  /\ idx = 0
  /\ existingPage = 0
  /\ properties = <<>>
  /\ synced = 0
  /\ exitCode = -1
  /\ clock = 1
  /\ runs = 0
  /\ throttled = 0
  /\ lookups = 0
  /\ writes = 0
  /\ issued = [ i \in 1..MaxId |-> 0 ]
  /\ landed = [ i \in 1..MaxId |-> 0 ]
  /\ lookupFailed = {}
  /\ rejected = {}
  /\ fatal = <<>>
  /\ startStore = store
  /\ lastOp = NoOp
  /\ prev = [ done |-> FALSE, path |-> "", source |-> <<>>, store |-> <<>>,
              clean |-> FALSE ]
  /\ requests = <<>>
  /\ inFlight = {}
  /\ waited = 0
  /\ SearchIdle
  /\ MapIdle
  /\ HelperIdle

(***************************************************************************)
(* main: a scheduled or manual start of one of the scripts.                *)
(***************************************************************************)
syncShopifyToNotion(script) ==
  /\ pc = "idle"
  /\ runs < MaxRuns
  /\ runs' = runs + 1
  /\ path' = script
  /\ pc' = "fetch"
  /\ allProducts' = <<>>
  /\ allOrders' = <<>>
  /\ hasNextPage' = TRUE
  /\ cursor' = 0
  /\ retries' = 0
  /\ throttled' = 0
  /\ idx' = 0
  /\ existingPage' = 0
  /\ properties' = <<>>
  /\ synced' = 0
  /\ exitCode' = -1
  /\ fatal' = <<>>
  /\ lookups' = 0
  /\ writes' = 0
  /\ issued' = [ i \in 1..MaxId |-> 0 ]
  /\ landed' = [ i \in 1..MaxId |-> 0 ]
  /\ lookupFailed' = {}
  /\ rejected' = {}
  /\ lastOp' = NoOp
  /\ startStore' = store
  /\ requests' = <<>>
  /\ inFlight' = {}
  /\ waited' = 0
  /\ UNCHANGED << searchVars, mapVars, helperVars >>
  /\ UNCHANGED << source, clock, targetVars, prev >>

\* delay(350) after a write to Notion, delay(500) after a page from Shopify
NotionDelay == 350
ShopifyDelay == 500

\* a request to Notion for the record at position at
Call(op, at) == << op, at >>

\* inFlight without the request that only stood for position at
Answered_NotAwaited(at) == inFlight

\* await: the request for the record at position at has been answered
Answered(at) == { r \in inFlight : r[2] # at }

\* the rejected promise reaches the catch of main: process.exit(1)
Throw(cause) ==
  /\ pc' = "failed"
  /\ exitCode' = 1
  /\ fatal' = << pc, cause >>

\* the for..of loop over the products reaches position i: the loop ends
\* (process.exit(0), or getRecentOrders in part_002), or syncProductToNotion
\* starts, reads product.id (a TypeError when there is none) and issues the
\* lookup
NextRecord(i, all) ==
  /\ idx' = i
  /\ IF i > Len(all)
       THEN /\ pc' = IF path = "rest" THEN "fetchOrders" ELSE "done"
            /\ exitCode' = IF path = "rest" THEN exitCode ELSE 0
            /\ inFlight' = Answered(idx)
            /\ UNCHANGED << fatal, lookups >>
       ELSE IF all[i].id = 0
         THEN /\ Throw("mapping")
              /\ inFlight' = Answered(idx)
              /\ UNCHANGED lookups
         ELSE /\ pc' = "lookup"
              /\ lookups' = lookups + 1
              /\ inFlight' = Answered(idx) \cup { Call("databases.query", i) }
              /\ UNCHANGED << exitCode, fatal >>

\* the page of the collection that follows position c
Page(c) == SubSeq(source, c + 1, Min(c + PageSize, Len(source)))

(***************************************************************************)
(* fetchAllProducts over shopifyGraphQL.                                   *)
(***************************************************************************)
\* a fetch that stops after the first page
fetchAllProducts_FirstPageOnly ==
  /\ pc = "fetch"
  /\ path = "graphql"
  /\ hasNextPage
  /\ allProducts' = allProducts \o Page(cursor)
  /\ hasNextPage' = FALSE
  /\ cursor' = IF Page(cursor) = <<>> THEN 0 ELSE cursor + Len(Page(cursor))
  /\ throttled' = 0
  /\ NextRecord(1, allProducts')
  /\ UNCHANGED << searchVars, mapVars, helperVars >>
  /\ requests' = Append(requests, cursor)
  /\ UNCHANGED waited
  /\ UNCHANGED << source, clock, targetVars, allOrders, retries, existingPage,
                  properties, synced, writes, issued, landed, lookupFailed,
                  rejected, lastOp, runVars >>

\* one turn of the while loop with a successful response
fetchAllProducts ==
  /\ pc = "fetch"
  /\ path = "graphql"
  /\ hasNextPage
  /\ allProducts' = allProducts \o Page(cursor)
  /\ hasNextPage' = (cursor + PageSize < Len(source))
  /\ cursor' = IF Page(cursor) = <<>> THEN 0 ELSE cursor + Len(Page(cursor))
  /\ throttled' = 0
  /\ IF hasNextPage'
       THEN UNCHANGED << endVars, idx, lookups, inFlight >>
       ELSE NextRecord(1, allProducts')
  /\ UNCHANGED << searchVars, mapVars, helperVars >>
  /\ requests' = Append(requests, cursor)
  /\ UNCHANGED waited
  /\ UNCHANGED << source, clock, targetVars, allOrders, retries, existingPage,
                  properties, synced, writes, issued, landed, lookupFailed,
                  rejected, lastOp, runVars >>

\* the response is a 429: delay(2000) and the same call again
shopifyGraphQL_RateLimited ==
  /\ pc = "fetch"
  /\ path = "graphql"
  /\ hasNextPage
  /\ throttled < MaxRetries
  /\ throttled' = throttled + 1
  /\ UNCHANGED << searchVars, mapVars, helperVars >>
  /\ UNCHANGED wireVars
  /\ UNCHANGED << source, clock, targetVars, fetchVars, retries, loopVars,
                  endVars, statVars, runVars >>

\* a fetch that logs the error and ends the run as if it had completed
shopifyGraphQL_Throw_Swallowed ==
  /\ pc = "fetch"
  /\ path = "graphql"
  /\ hasNextPage
  /\ \E cause \in { "network", "http", "GraphQL query failed" } :
       fatal' = << pc, cause >>
  /\ pc' = "done"
  /\ exitCode' = 0
  /\ UNCHANGED << searchVars, mapVars, helperVars >>
  /\ UNCHANGED wireVars
  /\ UNCHANGED << source, clock, targetVars, fetchVars, callVars, loopVars,
                  statVars, runVars >>

\* a network error, a non-429 HTTP error or a response with an errors field
shopifyGraphQL_Throw ==
  /\ pc = "fetch"
  /\ path = "graphql"
  /\ hasNextPage
  /\ \E cause \in { "network", "http", "GraphQL query failed" } : Throw(cause)
  /\ UNCHANGED << searchVars, mapVars, helperVars >>
  /\ UNCHANGED wireVars
  /\ UNCHANGED << source, clock, targetVars, fetchVars, callVars, loopVars,
                  statVars, runVars >>

(***************************************************************************)
(* getAllProducts and getInventoryLevels of the REST scripts.              *)
(***************************************************************************)
\* shopifyAPICall: let retries = 3
Retries == 3

\* products.flatMap(p => p.variants.map(v => v.inventory_item_id))
FlatMapThrows(all) == \E i \in 1..Len(all) : ~all[i].variantsDefined

inventoryItemIds(all) ==
  UNION { { <<i, j>> : j \in 1..Len(all[i].variants) } : i \in 1..Len(all) }

\* one turn of the while loop with a successful response; after the last
\* page the inventory item ids are collected and getInventoryLevels starts
getAllProducts ==
  /\ pc = "fetch"
  /\ path = "rest"
  /\ hasNextPage
  /\ allProducts' = allProducts \o Page(cursor)
  /\ hasNextPage' = (cursor + PageSize < Len(source))
  /\ cursor' = cursor + Len(Page(cursor))
  /\ IF hasNextPage'
       THEN UNCHANGED << endVars, idx, lookups, retries, inFlight >>
       ELSE IF FlatMapThrows(allProducts')
         THEN /\ Throw("mapping")
              /\ UNCHANGED << idx, lookups, retries, inFlight >>
         ELSE IF inventoryItemIds(allProducts') = {}
           THEN /\ NextRecord(1, allProducts')
                /\ UNCHANGED retries
           ELSE /\ pc' = "inventory"
                /\ retries' = Retries
                /\ UNCHANGED << idx, exitCode, fatal, lookups, inFlight >>
  /\ UNCHANGED << searchVars, mapVars, helperVars >>
  /\ requests' = Append(requests, cursor)
  /\ UNCHANGED waited
  /\ UNCHANGED << source, clock, targetVars, allOrders, throttled,
                  existingPage, properties, synced, writes, issued, landed,
                  lookupFailed, rejected, lastOp, runVars >>

\* shopifyAPI.get is rejected (a 429 included): logged and thrown again
getAllProducts_Throw ==
  /\ pc = "fetch"
  /\ path = "rest"
  /\ hasNextPage
  /\ \E cause \in { "network", "http", "429" } : Throw(cause)
  /\ UNCHANGED << searchVars, mapVars, helperVars >>
  /\ UNCHANGED wireVars
  /\ UNCHANGED << source, clock, targetVars, fetchVars, callVars, loopVars,
                  statVars, runVars >>

\* shopifyAPICall('/inventory_levels.json') returns the data
getInventoryLevels ==
  /\ pc = "inventory"
  /\ retries > 0
  /\ NextRecord(1, allProducts)
  /\ UNCHANGED << searchVars, mapVars, helperVars >>
  /\ UNCHANGED << requests, waited >>
  /\ UNCHANGED << source, clock, targetVars, fetchVars, callVars,
                  existingPage, properties, synced, writes, issued, landed,
                  lookupFailed, rejected, lastOp, runVars >>

\* shopifyAPICall gets a 429: delay(retryAfter * 1000), retries--, and
\* 'Max retries reached' when none is left
shopifyAPICall_RateLimited ==
  /\ pc = "inventory"
  /\ retries > 0
  /\ retries' = retries - 1
  /\ IF retries' = 0
       THEN Throw("Max retries reached")
       ELSE UNCHANGED endVars
  /\ UNCHANGED << searchVars, mapVars, helperVars >>
  /\ UNCHANGED wireVars
  /\ UNCHANGED << source, clock, targetVars, fetchVars, throttled, loopVars,
                  statVars, runVars >>

\* shopifyAPICall gets another error: thrown at once
shopifyAPICall_Throw ==
  /\ pc = "inventory"
  /\ retries > 0
  /\ \E cause \in { "network", "http" } : Throw(cause)
  /\ UNCHANGED << searchVars, mapVars, helperVars >>
  /\ UNCHANGED wireVars
  /\ UNCHANGED << source, clock, targetVars, fetchVars, callVars, loopVars,
                  statVars, runVars >>

(***************************************************************************)
(* syncProductToNotion: lookup, mapping, write.                            *)
(***************************************************************************)
product == allProducts[idx]

numericId == IdString(product.id)

\* results[1] instead of results[0]: null unless two pages match
results_OffByOne(matches) ==
  IF Cardinality(matches) <= 1 THEN {0} ELSE matches

\* response.results[0] || null: a page whose external id matches, if any
results(matches) == IF matches = {} THEN {0} ELSE matches

\* findNotionProduct has returned page (0 for null): the property bag is
\* built (a TypeError leaves the function) and the update or create is issued
BuildAndWrite(page) ==
  /\ existingPage' = page
  /\ IF path = "graphql" /\ MapThrows(product)
       THEN /\ Throw("mapping")
            /\ inFlight' = Answered(idx)
            /\ UNCHANGED << properties, clock, writes, issued >>
       ELSE /\ properties' = IF path = "graphql"
                               THEN GraphQLProperties(product, clock)
                               ELSE RestProperties(product, clock)
            /\ clock' = clock + 1
            /\ pc' = "write"
            /\ writes' = writes + 1
            /\ issued' = IF page = 0
                           THEN [ issued EXCEPT ![product.id] = @ + 1 ]
                           ELSE issued
            /\ inFlight' = Answered(idx)
                 \cup { Call(IF page = 0 THEN "pages.create" ELSE "pages.update",
                              idx) }
            /\ UNCHANGED << exitCode, fatal >>

\* notion.databases.query answers
findNotionProduct ==
  /\ pc = "lookup"
  /\ \E page \in results(databasesQuery(store, numericId)) :
       BuildAndWrite(page)
  /\ UNCHANGED << searchVars, mapVars, helperVars >>
  /\ UNCHANGED << requests, waited >>
  /\ UNCHANGED << source, targetVars, fetchVars, callVars, idx, synced,
                  lookups, landed, lookupFailed, rejected, lastOp, runVars >>

\* a lookup whose rejection is not caught
findNotionProduct_Error_Thrown ==
  /\ pc = "lookup"
  /\ lookupFailed' = lookupFailed \cup {idx}
  /\ Throw("lookup")
  /\ inFlight' = Answered(idx)
  /\ UNCHANGED << searchVars, mapVars, helperVars >>
  /\ UNCHANGED << requests, waited >>
  /\ UNCHANGED << source, clock, targetVars, fetchVars, callVars, loopVars,
                  lookups, writes, issued, landed, rejected, lastOp, runVars >>

\* notion.databases.query is rejected: the catch returns null
findNotionProduct_Error ==
  /\ pc = "lookup"
  /\ lookupFailed' = lookupFailed \cup {idx}
  /\ BuildAndWrite(0)
  /\ UNCHANGED << searchVars, mapVars, helperVars >>
  /\ UNCHANGED << requests, waited >>
  /\ UNCHANGED << source, targetVars, fetchVars, callVars, idx, synced,
                  lookups, landed, rejected, lastOp, runVars >>

\* notion.pages.update or notion.pages.create succeeds, then delay(350)
syncProductToNotion ==
  /\ pc = "write"
  /\ IF existingPage # 0
       THEN /\ store' = pagesUpdate(store, existingPage, properties)
            /\ lastOp' = [ op |-> "update", ok |-> TRUE, pid |-> existingPage,
                           at |-> idx ]
            /\ UNCHANGED landed
       ELSE /\ store' = pagesCreate(store, properties)
            /\ lastOp' = [ op |-> "create", ok |-> TRUE, pid |-> Len(store) + 1,
                           at |-> idx ]
            /\ landed' = [ landed EXCEPT ![product.id] = @ + 1 ]
  /\ synced' = IF path = "graphql" THEN synced + 1 ELSE synced
  /\ NextRecord(idx + 1, allProducts)
  /\ UNCHANGED << searchVars, mapVars, helperVars >>
  /\ waited' = NotionDelay
  /\ UNCHANGED requests
  /\ UNCHANGED << source, clock, orderStore, fetchVars, callVars,
                  existingPage, properties, writes, issued, lookupFailed,
                  rejected, runVars >>

\* a write outside the try block: the rejection leaves the function
syncProductToNotion_Rejected_Uncaught ==
  /\ pc = "write"
  /\ rejected' = rejected \cup {idx}
  /\ lastOp' = [ op |-> IF existingPage # 0 THEN "update" ELSE "create",
                 ok |-> FALSE, pid |-> existingPage, at |-> idx ]
  /\ Throw("write")
  /\ inFlight' = Answered(idx)
  /\ waited' = 0
  /\ UNCHANGED requests
  /\ UNCHANGED << searchVars, mapVars, helperVars >>
  /\ UNCHANGED << source, clock, targetVars, fetchVars, callVars, loopVars,
                  lookups, writes, issued, landed, lookupFailed, runVars >>

\* the write is rejected: the catch logs the error and the function returns
syncProductToNotion_Rejected ==
  /\ pc = "write"
  /\ rejected' = rejected \cup {idx}
  /\ lastOp' = [ op |-> IF existingPage # 0 THEN "update" ELSE "create",
                 ok |-> FALSE, pid |-> existingPage, at |-> idx ]
  /\ synced' = IF path = "graphql" THEN synced + 1 ELSE synced
  /\ NextRecord(idx + 1, allProducts)
  /\ UNCHANGED << searchVars, mapVars, helperVars >>
  /\ waited' = 0
  /\ UNCHANGED requests
  /\ UNCHANGED << source, clock, targetVars, fetchVars, callVars,
                  existingPage, properties, writes, issued, landed,
                  lookupFailed, runVars >>

(***************************************************************************)
(* getRecentOrders and syncOrderToNotion (part_002).                       *)
(***************************************************************************)
order == allOrders[idx]

\* position of the order in the records of the run
orderAt == Len(allProducts) + idx

\* the for..of loop over the orders reaches position i
NextOrder(i, all) ==
  /\ idx' = i
  /\ IF i > Len(all)
       THEN /\ pc' = "done"
            /\ exitCode' = 0
            /\ inFlight' = Answered(orderAt)
            /\ UNCHANGED << fatal, lookups >>
       ELSE IF all[i].id = 0
         THEN /\ Throw("mapping")
              /\ inFlight' = Answered(orderAt)
              /\ UNCHANGED lookups
         ELSE /\ pc' = "lookupOrder"
              /\ lookups' = lookups + 1
              /\ inFlight' = Answered(orderAt)
                               \cup { Call("databases.query", Len(allProducts) + i) }
              /\ UNCHANGED << exitCode, fatal >>

\* one turn of the while loop with a successful response: a page of orders
\* and, while more may follow, a next link
getRecentOrders ==
  /\ pc = "fetchOrders"
  /\ \E page \in SeqUpTo(Orders, Min(PageSize, MaxOrders - Len(allOrders))),
        more \in BOOLEAN :
       /\ more => Len(allOrders) + Len(page) < MaxOrders
       /\ allOrders' = allOrders \o page
       /\ IF more
            THEN UNCHANGED << endVars, idx, lookups, inFlight >>
            ELSE NextOrder(1, allOrders')
  /\ UNCHANGED << searchVars, mapVars, helperVars >>
  /\ waited' = IF writes > 0 THEN Min(waited + ShopifyDelay, MaxWaited)
                               ELSE waited
  /\ UNCHANGED requests
  /\ UNCHANGED << source, clock, targetVars, allProducts, hasNextPage, cursor,
                  callVars, existingPage, properties, synced, writes, issued,
                  landed, lookupFailed, rejected, lastOp, runVars >>

\* shopifyAPI.get is rejected (a 429 included): logged and thrown again
getRecentOrders_Throw ==
  /\ pc = "fetchOrders"
  /\ \E cause \in { "network", "http", "429" } : Throw(cause)
  /\ UNCHANGED << searchVars, mapVars, helperVars >>
  /\ UNCHANGED wireVars
  /\ UNCHANGED << source, clock, targetVars, fetchVars, callVars, loopVars,
                  statVars, runVars >>

OrderBuildAndWrite(page) ==
  /\ existingPage' = page
  /\ IF OrderMapThrows(order)
       THEN /\ Throw("mapping")
            /\ inFlight' = Answered(orderAt)
            /\ UNCHANGED << properties, clock, writes >>
       ELSE /\ properties' = OrderProperties(order, clock)
            /\ clock' = clock + 1
            /\ pc' = "writeOrder"
            /\ writes' = writes + 1
            /\ inFlight' = Answered(orderAt)
                 \cup { Call(IF page = 0 THEN "pages.create" ELSE "pages.update",
                              orderAt) }
            /\ UNCHANGED << exitCode, fatal >>

findNotionOrder ==
  /\ pc = "lookupOrder"
  /\ \E page \in results(OrderMatches(orderStore, IdString(order.id))) :
       OrderBuildAndWrite(page)
  /\ UNCHANGED << searchVars, mapVars, helperVars >>
  /\ UNCHANGED << requests, waited >>
  /\ UNCHANGED << source, targetVars, fetchVars, callVars, idx, synced,
                  lookups, issued, landed, lookupFailed, rejected, lastOp,
                  runVars >>

findNotionOrder_Error ==
  /\ pc = "lookupOrder"
  /\ lookupFailed' = lookupFailed \cup {orderAt}
  /\ OrderBuildAndWrite(0)
  /\ UNCHANGED << searchVars, mapVars, helperVars >>
  /\ UNCHANGED << requests, waited >>
  /\ UNCHANGED << source, targetVars, fetchVars, callVars, idx, synced,
                  lookups, issued, landed, rejected, lastOp, runVars >>

syncOrderToNotion ==
  /\ pc = "writeOrder"
  /\ orderStore' =
       IF existingPage # 0
         THEN [ orderStore EXCEPT ![existingPage].props = properties ]
         ELSE Append(orderStore, [ id |-> Len(orderStore) + 1,
                                   props |-> properties ])
  /\ lastOp' = [ op |-> IF existingPage # 0 THEN "update" ELSE "create",
                 ok |-> TRUE,
                 pid |-> IF existingPage # 0 THEN existingPage
                                             ELSE Len(orderStore) + 1,
                 at |-> orderAt ]
  /\ NextOrder(idx + 1, allOrders)
  /\ UNCHANGED << searchVars, mapVars, helperVars >>
  /\ waited' = NotionDelay
  /\ UNCHANGED requests
  /\ UNCHANGED << source, clock, store, fetchVars, callVars, existingPage,
                  properties, synced, writes, issued, landed, lookupFailed,
                  rejected, runVars >>

syncOrderToNotion_Rejected ==
  /\ pc = "writeOrder"
  /\ rejected' = rejected \cup {orderAt}
  /\ lastOp' = [ op |-> IF existingPage # 0 THEN "update" ELSE "create",
                 ok |-> FALSE, pid |-> existingPage, at |-> orderAt ]
  /\ NextOrder(idx + 1, allOrders)
  /\ UNCHANGED << searchVars, mapVars, helperVars >>
  /\ waited' = 0
  /\ UNCHANGED requests
  /\ UNCHANGED << source, clock, targetVars, fetchVars, callVars,
                  existingPage, properties, synced, writes, issued, landed,
                  lookupFailed, runVars >>

(***************************************************************************)
(* process.exit: the script ends; the next run starts from idle.           *)
(***************************************************************************)
Clean == pc = "done" /\ lookupFailed = {} /\ rejected = {}

processExit ==
  /\ pc \in { "done", "failed" }
  /\ runs < MaxRuns
  /\ pc' = "idle"
  /\ prev' = [ done |-> pc = "done", path |-> path, source |-> source,
               store |-> store, clean |-> Clean ]
  /\ allProducts' = <<>>
  /\ allOrders' = <<>>
  /\ hasNextPage' = FALSE
  /\ cursor' = 0
  /\ retries' = 0
  /\ throttled' = 0
  /\ idx' = 0
  /\ existingPage' = 0
  /\ properties' = <<>>
  /\ synced' = 0
  /\ exitCode' = -1
  /\ fatal' = <<>>
  /\ lookups' = 0
  /\ writes' = 0
  /\ issued' = [ i \in 1..MaxId |-> 0 ]
  /\ landed' = [ i \in 1..MaxId |-> 0 ]
  /\ lookupFailed' = {}
  /\ rejected' = {}
  /\ lastOp' = NoOp
  /\ startStore' = store
  /\ requests' = <<>>
  /\ inFlight' = {}
  /\ waited' = 0
  /\ UNCHANGED << searchVars, mapVars, helperVars >>
  /\ UNCHANGED << source, clock, targetVars, path, runs >>

(***************************************************************************)
(* The merchant edits the first product of the collection between runs.    *)
(***************************************************************************)
Edited(p) ==
  IF p.status = NULL
    THEN [ p EXCEPT !.status = Some("ACTIVE"),
                    !.variants = << [ compareAtPrice |-> Some("20.00") ] >> ]
    ELSE [ p EXCEPT !.status = NULL, !.variants = <<>> ]

shopifyEdit ==
  /\ pc = "idle"
  /\ runs > 0
  /\ Len(source) > 0
  /\ source[1] \in WellFormed
  /\ source' = [ source EXCEPT ![1] = Edited(@) ]
  /\ UNCHANGED << searchVars, mapVars, helperVars >>
  /\ UNCHANGED wireVars
  /\ UNCHANGED << clock, targetVars, fetchVars, callVars, loopVars, endVars,
                  statVars, runVars >>

Next ==
  \/ \E script \in Scripts : syncShopifyToNotion(script)
  \/ shopifyEdit
  \/ fetchAllProducts
  \/ shopifyGraphQL_RateLimited
  \/ shopifyGraphQL_Throw
  \/ getAllProducts
  \/ getAllProducts_Throw
  \/ getInventoryLevels
  \/ shopifyAPICall_RateLimited
  \/ shopifyAPICall_Throw
  \/ findNotionProduct
  \/ findNotionProduct_Error
  \/ syncProductToNotion
  \/ syncProductToNotion_Rejected
  \/ getRecentOrders
  \/ getRecentOrders_Throw
  \/ findNotionOrder
  \/ findNotionOrder_Error
  \/ syncOrderToNotion
  \/ syncOrderToNotion_Rejected
  \/ processExit

Spec == Init /\ [][Next]_vars

(***************************************************************************)
(* The search CLI (part_000): main and unifiedSearch.                      *)
(***************************************************************************)
\* no sync script is running while the search CLI or a mapper is looked at
SyncIdle ==
  /\ source = <<>>
  /\ orderStore = <<>>
  /\ pc = "idle"
  /\ path = "graphql"
  /\ allProducts = <<>>
  /\ allOrders = <<>>
  /\ hasNextPage = FALSE
  /\ cursor = 0
  /\ retries = 0
  /\ idx = 0
  /\ existingPage = 0
  /\ properties = <<>>
  /\ synced = 0
  /\ exitCode = -1
  /\ clock = 1
  /\ runs = 0
  /\ throttled = 0
  /\ lookups = 0
  /\ writes = 0
  /\ issued = [ i \in 1..MaxId |-> 0 ]
  /\ landed = [ i \in 1..MaxId |-> 0 ]
  /\ lookupFailed = {}
  /\ rejected = {}
  /\ fatal = <<>>
  /\ startStore = store
  /\ lastOp = NoOp
  /\ prev = [ done |-> FALSE, path |-> "", source |-> <<>>, store |-> <<>>,
              clean |-> FALSE ]
  /\ requests = <<>>
  /\ inFlight = {}
  /\ waited = 0

\* node search.js <keyword> [--shopify-only] [--notion-only]
InitSearch ==
  /\ store \in SearchStores
  /\ SyncIdle
  /\ MapIdle
  /\ HelperIdle
  /\ args \in [ keyword : Keywords, flags : SUBSET Flags ]
  /\ options = [ skipShopify |-> FALSE, skipNotion |-> FALSE,
                 skipCollections |-> FALSE ]
  /\ pending = {}
  /\ searchResults = NoResults
  /\ sent = <<>>
  /\ sp = "start"

\* unifiedSearch after Promise.all: the collection lookup is issued when the
\* keyword looks like a handle, else the summary is built and returned
Settled(res, log, opts) ==
  IF matchHandle(args.keyword) /\ ~opts.skipCollections
    THEN /\ sp' = "collection"
         /\ searchResults' = res
         /\ sent' = Append(log, Request("Shopify", "collectionByHandle"))
    ELSE /\ sp' = "done"
         /\ searchResults' = [ res EXCEPT !.summary = Some(summary(res)) ]
         /\ sent' = log

\* main reads the flags and calls unifiedSearch, which starts the searches
\* that are not skipped
main ==
  /\ sp = "start"
  /\ LET opts == [ skipShopify |-> "--notion-only" \in args.flags,
                   skipNotion |-> "--shopify-only" \in args.flags,
                   skipCollections |-> FALSE ]
         calls ==
           (IF opts.skipShopify THEN <<>>
              ELSE << Request("Shopify", "products") >>)
           \o (IF opts.skipNotion THEN <<>>
                 ELSE << Request("Notion", "databases.query") >>)
     IN  /\ options' = opts
         /\ pending' = { calls[i].to : i \in 1..Len(calls) }
         /\ IF calls = <<>>
              THEN Settled(NoResults, calls, opts)
              ELSE /\ sp' = "searching"
                   /\ searchResults' = NoResults
                   /\ sent' = calls
  /\ UNCHANGED << args, mapVars, helperVars, syncVars >>

\* a Promise.all that settles with the first of the two searches
Returned_First(system, res) ==
  /\ pending' = pending \ { system }
  /\ Settled(res, sent, options)

\* one of the two searches has returned list
Returned(system, res) ==
  /\ pending' = pending \ { system }
  /\ IF pending' = {}
       THEN Settled(res, sent, options)
       ELSE /\ searchResults' = res
            /\ UNCHANGED << sp, sent >>

\* the source answers the products query
searchShopifyProducts ==
  /\ sp = "searching"
  /\ "Shopify" \in pending
  /\ \E hits \in ShopifyHits :
       Returned("Shopify",
                [ searchResults EXCEPT !.shopify =
                    [ i \in 1..Len(hits) |->
                        ShopifyProduct(hits[i], args.keyword) ] ])
  /\ UNCHANGED << args, options, mapVars, helperVars, syncVars >>

\* shopifyGraphQL throws: the catch returns []
searchShopifyProducts_Error ==
  /\ sp = "searching"
  /\ "Shopify" \in pending
  /\ Returned("Shopify", [ searchResults EXCEPT !.shopify = <<>> ])
  /\ UNCHANGED << args, options, mapVars, helperVars, syncVars >>

\* the target answers the query with some pages of the products database
searchNotionProducts ==
  /\ sp = "searching"
  /\ "Notion" \in pending
  /\ \E S \in SUBSET (1..Len(store)) :
       Returned("Notion",
                [ searchResults EXCEPT !.notion =
                    [ i \in 1..Cardinality(S) |->
                        NotionProduct(Pick(store, S)[i]) ] ])
  /\ UNCHANGED << args, options, mapVars, helperVars, syncVars >>

\* notion.databases.query is rejected: the catch returns []
searchNotionProducts_Error ==
  /\ sp = "searching"
  /\ "Notion" \in pending
  /\ Returned("Notion", [ searchResults EXCEPT !.notion = <<>> ])
  /\ UNCHANGED << args, options, mapVars, helperVars, syncVars >>

\* searchByCollection has returned list: the summary is built and returned
Collected(list) ==
  /\ sp' = "done"
  /\ searchResults' =
       LET res == [ searchResults EXCEPT !.collection = list ]
       IN  [ res EXCEPT !.summary = Some(summary(res)) ]

\* the source answers the collection query
searchByCollection ==
  /\ sp = "collection"
  /\ \E list \in CollectionHits : Collected(list)
  /\ UNCHANGED << args, options, pending, sent, mapVars, helperVars, syncVars >>

\* shopifyGraphQL throws: the catch returns []
searchByCollection_Error ==
  /\ sp = "collection"
  /\ Collected(<<>>)
  /\ UNCHANGED << args, options, pending, sent, mapVars, helperVars, syncVars >>

NextSearch ==
  \/ main
  \/ searchShopifyProducts
  \/ searchShopifyProducts_Error
  \/ searchNotionProducts
  \/ searchNotionProducts_Error
  \/ searchByCollection
  \/ searchByCollection_Error

SpecSearch == InitSearch /\ [][NextSearch]_vars

(***************************************************************************)
(* The field mappers applied to one source value.                          *)
(***************************************************************************)
InitMap ==
  /\ store = <<>>
  /\ SyncIdle
  /\ SearchIdle
  /\ HelperIdle
  /\ mapOut = <<>>
  /\ \/ mapIn \in [ fn : { "Description" }, html : Descriptions ]
     \/ mapIn \in [ fn : { "Tags" }, tags : TagLists ]
     \/ mapIn \in [ fn : { "RestTags" }, tagString : TagStrings ]
     \/ mapIn \in [ fn : { "Prices", "RestPrices" }, priced : PricedVariants ]
     \/ mapIn \in [ fn : { "calculateTotalInventory" },
                    stocked : StockedVariants ]
     \/ mapIn \in [ fn : { "RestCurrentStock" }, rest : RestStocked ]

Apply(fn, value) ==
  /\ mapIn.fn = fn
  /\ mapOut = <<>>
  /\ mapOut' = << value >>
  /\ UNCHANGED << mapIn, searchVars, helperVars, syncVars >>

mapDescription == Apply("Description", Description(mapIn.html))

mapTags == Apply("Tags", Tags(mapIn.tags))

mapRestTags == Apply("RestTags", RestTags(mapIn.tagString))

mapPrices == Apply("Prices", Prices(mapIn.priced))

mapRestPrices == Apply("RestPrices", RestPrices(mapIn.priced))

mapCurrentStock ==
  Apply("calculateTotalInventory", calculateTotalInventory(mapIn.stocked))

mapRestCurrentStock ==
  Apply("RestCurrentStock",
        RestCurrentStock(mapIn.rest.variants, mapIn.rest.levels))

NextMap ==
  \/ mapDescription
  \/ mapTags
  \/ mapRestTags
  \/ mapPrices
  \/ mapRestPrices
  \/ mapCurrentStock
  \/ mapRestCurrentStock

SpecMap == InitMap /\ [][NextMap]_vars

(***************************************************************************)
(* One call of a request helper: shopifyGraphQL under fetchAllProducts     *)
(* (sync-graphql.js 26-68, 152), shopifyAPICall under getInventoryLevels   *)
(* (401-420, 472; part_002 33-52, 103).                                    *)
(***************************************************************************)
MaxAttempts == 4    \* requests one call of shopifyGraphQL is seen to send

\* a JavaScript number that need not be whole: a fraction in lowest terms
\* (the rounding of the double is left out)
RECURSIVE GCD(_, _)
GCD(a, b) == IF b = 0 THEN a ELSE GCD(b, a % b)

Ratio(n, d) == << n \div GCD(n, d), d \div GCD(n, d) >>

Whole(n) == << n, 1 >>

\* the wait without the lower limit of 100 ms
waitTime_NoFloor(currentlyAvailable, restoreRate) ==
  Ratio((500 - currentlyAvailable) * 1000, restoreRate)

\* Math.max(100, (500 - currentlyAvailable) / restoreRate * 1000)
waitTime(currentlyAvailable, restoreRate) ==
  LET x == Ratio((500 - currentlyAvailable) * 1000, restoreRate)
  IN  IF x[1] >= 100 * x[2] THEN x ELSE Whole(100)

\* a header value, a string, used as a number
ToNumber(s) == CASE s = "0" -> 0 [] s = "1" -> 1 [] s = "5" -> 5

\* a retry-after that ignores the header
retryAfter_Fixed(response) == 2

\* error.response.headers['retry-after'] || 2
retryAfter(response) ==
  IF response.retryAfter = NULL THEN 2
                                ELSE ToNumber(response.retryAfter[1])

\* the responses of the source
Budgets == { 0, 100, 499, 500, 1000 }
Rates == { 3, 50, 100 }

Costs ==
  { NULL } \cup { Some([ currentlyAvailable |-> a, restoreRate |-> r ]) :
                    a \in Budgets, r \in Rates }

RetryAfterHeaders == { NULL, Some("0"), Some("1"), Some("5") }

GraphQLResponses ==
  [ status : { 200 }, errors : BOOLEAN, cost : Costs, retryAfter : { NULL } ]
    \cup [ status : { 429, 500, 0 }, errors : { FALSE }, cost : { NULL },
           retryAfter : { NULL } ]

RestResponses ==
  [ status : { 200, 500, 0 }, errors : { FALSE }, cost : { NULL },
    retryAfter : { NULL } ]
    \cup [ status : { 429 }, errors : { FALSE }, cost : { NULL },
           retryAfter : RetryAfterHeaders ]

\* shopifyGraphQL(PRODUCTS_QUERY, cursor ? { cursor } : {}) and
\* shopifyAPICall('/inventory_levels.json', { inventory_item_ids })
Calls ==
  [ fn : { "shopifyGraphQL" },
    request : [ what : { "PRODUCTS_QUERY" }, with : { NULL, Some(1) } ] ]
    \cup [ fn : { "shopifyAPICall" },
           request : [ what : { "/inventory_levels.json" },
                       with : { Some(1) } ] ]

\* the entries of trace
Send(request) ==
  [ ev |-> "send", request |-> request, response |-> NoResponse,
    ms |-> Whole(0) ]

Got(response) ==
  [ ev |-> "response", request |-> NoRequest, response |-> response,
    ms |-> Whole(0) ]

Delay(ms) ==
  [ ev |-> "delay", request |-> NoRequest, response |-> NoResponse,
    ms |-> ms ]

Sends == Cardinality({ i \in 1..Len(trace) : trace[i].ev = "send" })

InitCall ==
  /\ store = <<>>
  /\ SyncIdle
  /\ SearchIdle
  /\ MapIdle
  /\ call \in Calls
  /\ trace = <<>>
  /\ outcome = <<>>
  /\ hp = "called"

\* what a call of a helper leaves alone
HelperFrame ==
  UNCHANGED << call, source, clock, targetVars, fetchVars, throttled,
               loopVars, pc, fatal, statVars, runVars, wireVars, searchVars,
               mapVars >>

\* return response.data
Return(response) ==
  /\ outcome' = Some([ raised |-> FALSE, message |-> "",
                       response |-> response ])
  /\ hp' = "returned"
  /\ UNCHANGED exitCode

\* throw: the caller has no catch of its own, syncShopifyToNotion logs the
\* error and throws it again, main logs it and calls process.exit(1)
Raise(message, response) ==
  /\ outcome' = Some([ raised |-> TRUE, message |-> message,
                       response |-> response ])
  /\ hp' = "raised"
  /\ exitCode' = 1

\* axios.post(graphqlEndpoint, { query, variables })
shopifyGraphQL_Post ==
  /\ hp = "called"
  /\ call.fn = "shopifyGraphQL"
  /\ trace' = << Send(call.request) >>
  /\ hp' = "awaiting"
  /\ UNCHANGED << outcome, retries, exitCode >>
  /\ HelperFrame

\* a response without an errors field: the wait the cost asks for, then
\* return response.data
shopifyGraphQL_Data ==
  /\ hp = "awaiting"
  /\ call.fn = "shopifyGraphQL"
  /\ \E response \in GraphQLResponses :
       /\ response.status = 200
       /\ ~response.errors
       /\ trace' =
            IF response.cost # NULL
                 /\ response.cost[1].currentlyAvailable < 500
              THEN trace \o << Got(response),
                               Delay(waitTime(response.cost[1].currentlyAvailable,
                                              response.cost[1].restoreRate)) >>
              ELSE Append(trace, Got(response))
       /\ Return(response)
  /\ UNCHANGED retries
  /\ HelperFrame

\* an errors field that is answered like a 429: wait and send again
shopifyGraphQL_QueryFailed_Retried ==
  /\ hp = "awaiting"
  /\ call.fn = "shopifyGraphQL"
  /\ Sends < MaxAttempts
  /\ \E response \in GraphQLResponses :
       /\ response.status = 200
       /\ response.errors
       /\ trace' = trace \o << Got(response), Delay(Whole(2000)),
                               Send(call.request) >>
  /\ UNCHANGED << outcome, hp, retries, exitCode >>
  /\ HelperFrame

\* response.data.errors: throw new Error('GraphQL query failed'); the catch
\* of shopifyGraphQL finds no error.response and throws it again
shopifyGraphQL_QueryFailed ==
  /\ hp = "awaiting"
  /\ call.fn = "shopifyGraphQL"
  /\ \E response \in GraphQLResponses :
       /\ response.status = 200
       /\ response.errors
       /\ trace' = Append(trace, Got(response))
  /\ Raise("GraphQL query failed", NoResponse)
  /\ UNCHANGED retries
  /\ HelperFrame

\* a retry that gives up after Retries requests
shopifyGraphQL_Retry_Bounded ==
  /\ hp = "awaiting"
  /\ call.fn = "shopifyGraphQL"
  /\ \E response \in GraphQLResponses :
       /\ response.status = 429
       /\ IF Sends < Retries
            THEN /\ trace' = trace \o << Got(response), Delay(Whole(2000)),
                                         Send(call.request) >>
                 /\ UNCHANGED << outcome, hp, exitCode >>
            ELSE /\ trace' = trace \o << Got(response), Delay(Whole(2000)) >>
                 /\ Raise("Max retries reached", NoResponse)
  /\ UNCHANGED retries
  /\ HelperFrame

\* status 429: delay(2000), then shopifyGraphQL(query, variables) again
shopifyGraphQL_Retry ==
  /\ hp = "awaiting"
  /\ call.fn = "shopifyGraphQL"
  /\ Sends < MaxAttempts
  /\ \E response \in GraphQLResponses :
       /\ response.status = 429
       /\ trace' = trace \o << Got(response), Delay(Whole(2000)),
                               Send(call.request) >>
  /\ UNCHANGED << outcome, hp, retries, exitCode >>
  /\ HelperFrame

\* any other axios error (an HTTP status or no response): thrown again
shopifyGraphQL_Rethrow ==
  /\ hp = "awaiting"
  /\ call.fn = "shopifyGraphQL"
  /\ \E response \in GraphQLResponses :
       /\ response.status \notin { 200, 429 }
       /\ trace' = Append(trace, Got(response))
       /\ Raise("Request failed", response)
  /\ UNCHANGED retries
  /\ HelperFrame

\* let retries = 3, then shopifyAPI.get(endpoint, { params })
shopifyAPICall_Get ==
  /\ hp = "called"
  /\ call.fn = "shopifyAPICall"
  /\ retries' = Retries
  /\ trace' = << Send(call.request) >>
  /\ hp' = "awaiting"
  /\ UNCHANGED << outcome, exitCode >>
  /\ HelperFrame

\* return response.data
shopifyAPICall_Data ==
  /\ hp = "awaiting"
  /\ call.fn = "shopifyAPICall"
  /\ \E response \in RestResponses :
       /\ response.status = 200
       /\ trace' = Append(trace, Got(response))
       /\ Return(response)
  /\ UNCHANGED retries
  /\ HelperFrame

\* status 429: delay(retryAfter * 1000), retries--, and the next turn of the
\* while loop sends the request again or, with no retry left, the loop ends
\* and 'Max retries reached for Shopify API' is thrown
shopifyAPICall_Retry ==
  /\ hp = "awaiting"
  /\ call.fn = "shopifyAPICall"
  /\ retries' = retries - 1
  /\ \E response \in RestResponses :
       /\ response.status = 429
       /\ trace' = trace
            \o << Got(response), Delay(Whole(retryAfter(response) * 1000)) >>
            \o (IF retries' > 0 THEN << Send(call.request) >> ELSE <<>>)
  /\ IF retries' > 0
       THEN UNCHANGED << outcome, hp, exitCode >>
       ELSE Raise("Max retries reached for Shopify API", NoResponse)
  /\ HelperFrame

\* any other axios error: throw error
shopifyAPICall_Rethrow ==
  /\ hp = "awaiting"
  /\ call.fn = "shopifyAPICall"
  /\ \E response \in RestResponses :
       /\ response.status \notin { 200, 429 }
       /\ trace' = Append(trace, Got(response))
       /\ Raise("Request failed", response)
  /\ UNCHANGED retries
  /\ HelperFrame

NextCall ==
  \/ shopifyGraphQL_Post
  \/ shopifyGraphQL_Data
  \/ shopifyGraphQL_QueryFailed
  \/ shopifyGraphQL_Retry
  \/ shopifyGraphQL_Rethrow
  \/ shopifyAPICall_Get
  \/ shopifyAPICall_Data
  \/ shopifyAPICall_Retry
  \/ shopifyAPICall_Rethrow

SpecCall == InitCall /\ [][NextCall]_vars

(***************************************************************************)
(* Properties.                                                             *)
(***************************************************************************)
\* the pages of the products database that carry the external id ext
PagesOf(st, ext) ==
  { k \in 1..Len(st) : st[k].props["Shopify Product ID"] = Some(ext) }

Count(st, ext) == Cardinality(PagesOf(st, ext))

\* the external ids among the fetched products
FetchedIds == { allProducts[k].id : k \in 1..Len(allProducts) } \ {0}

\* the id was not in the products database when the run started
AbsentAtStart(i) == Count(startStore, IdString(i)) = 0

\* no lookup and no write made for a product with id i was rejected
NoFailureFor(i) ==
  \A k \in 1..Len(allProducts) :
    allProducts[k].id = i => k \notin lookupFailed /\ k \notin rejected

\* at most one page per external id
Unique(st) == \A i \in 1..MaxId : Count(st, IdString(i)) <= 1

\* the two databases agree on every property but Last Synced At
SameButLastSynced(st1, st2) ==
  /\ Len(st1) = Len(st2)
  /\ \A k \in 1..Len(st1) :
       \A n \in PropNames \ { "Last Synced At" } :
         st1[k].props[n] = st2[k].props[n]

\* C1: when the write for a product is issued and a page with the product's
\* external id is in the target store, the write is an update, never a
\* create, whatever the lookup answered.
C1_ExistingIdIsUpdated ==
  (pc = "write" /\ Count(store, numericId) > 0) => existingPage # 0

\* C2: the target store holds at most one page per external id, in the
\* products database and in the orders database, at every point of every run.
C2_AtMostOnePagePerId ==
  /\ Unique(store)
  /\ \A i \in 1..MaxOrders : Cardinality(OrderMatches(orderStore, IdString(i))) <= 1

\* C3 as stated: a run that has completed issued exactly one create for every
\* fetched id that was absent at the start, and the store holds exactly one
\* page with that id.
C3_ExactlyOneCreate ==
  pc = "done" =>
    \A i \in FetchedIds :
      AbsentAtStart(i) => issued[i] = 1 /\ Count(store, IdString(i)) = 1

\* C3 as amended: a run that has completed issued at least one create for
\* every fetched id that was absent at the start, the store holds one page
\* with that id per create that succeeded, and when no lookup or write for the
\* id was rejected there was exactly one create and there is exactly one page.
C3_OnePagePerLandedCreate ==
  pc = "done" =>
    \A i \in FetchedIds :
      AbsentAtStart(i) =>
        /\ issued[i] >= 1
        /\ Count(store, IdString(i)) = landed[i]
        /\ NoFailureFor(i) => issued[i] = 1 /\ Count(store, IdString(i)) = 1

\* a completed run with two products of one absent id, no call rejected
C3_Witness ==
  /\ pc = "done"
  /\ \E i \in FetchedIds :
       /\ AbsentAtStart(i)
       /\ NoFailureFor(i)
       /\ Cardinality({ k \in 1..Len(allProducts) : allProducts[k].id = i }) = 2
       /\ issued[i] = 1
       /\ Count(store, IdString(i)) = 1

\* the second of two completed runs of one script over the same source data
SecondRun ==
  pc = "done" /\ prev.done /\ prev.path = path /\ prev.source = source

NoCreateIssued == \A i \in 1..MaxId : issued[i] = 0

RECURSIVE SumTo(_, _)
SumTo(f, n) == IF n = 0 THEN 0 ELSE f[n] + SumTo(f, n - 1)

Total == Len(allProducts) + Len(allOrders)

\* C5: a rejected create or update never ends the run: a run in which a
\* write was rejected fails only for a mapping error or a failed fetch of the
\* orders, and when it completes every fetched record, the ones after the
\* rejected write included, has been looked up and written.
C5_RejectedWriteDoesNotStopLoop ==
  rejected # {} =>
    /\ pc = "failed" =>
         fatal[2] = "mapping" \/ fatal[1] = "fetchOrders"
    /\ pc = "done" => lookups = Total /\ writes = Total
    /\ \A k \in rejected :
         k <= Len(allProducts) /\ pc \in { "lookup", "write" } => idx > k

\* the first write was rejected and the second record was still written
C5_Witness ==
  /\ pc = "done"
  /\ 1 \in rejected
  /\ lastOp.at = 2
  /\ lastOp.ok
  /\ Total = 2

\* C6: a mapping error never ends the run in the failure outcome.
C6_MappingFailureIsSkipped ==
  pc = "failed" => fatal[2] # "mapping"

\* C7: when a page request of the product fetch fails with a network error
\* or a non-429 HTTP error, the run has failed with exit code 1 and has made
\* no lookup and no write: the target store is as it was at the start.
C7_FetchErrorIsFatal ==
  (fatal # <<>> /\ fatal[1] = "fetch" /\ fatal[2] \in { "network", "http" }) =>
    /\ pc = "failed"
    /\ exitCode = 1
    /\ lookups = 0
    /\ writes = 0
    /\ store = startStore

\* the request for a later page failed: the records of the earlier pages
\* had been fetched and none was looked up
C7_Witness ==
  /\ pc = "failed"
  /\ fatal = << "fetch", "network" >>
  /\ Len(allProducts) = 1
  /\ Len(source) = 2
  /\ lookups = 0

\* C8: no run fails because the source answered 429 to a request.
C8_RateLimitIsRetried ==
  fatal # <<>> => fatal[2] # "429"

\* C9: no step removes a page from the target store, and no step of a run
\* changes the source collection.
C9_NothingRemoved ==
  [][ /\ \A k \in 1..Len(store) :
           k <= Len(store') /\ store'[k].id = store[k].id
      /\ \A k \in 1..Len(orderStore) :
           k <= Len(orderStore') /\ orderStore'[k].id = orderStore[k].id
      /\ (pc # "idle" \/ pc' # "idle") => source' = source ]_vars

\* a run over a store that held a page has updated it and created another
C9_Witness ==
  /\ pc = "done"
  /\ Len(startStore) = 1
  /\ Len(store) = 2
  /\ writes = 2
  /\ lastOp.op = "update"
  /\ lastOp.ok

\* the value of each property as mapped from the source record, null for a
\* property the record has no value for
Mapped(p) ==
  [ k \in PropNames \ { "Last Synced At" } |->
      CASE k = "Product Name" -> Some(p.title)
        [] k = "Shopify Product ID" -> Some(IdString(p.id))
        [] k = "Compare At Price" ->
             IF defaultVariant(p).compareAtPrice # NULL
               THEN Some(parseFloat(defaultVariant(p).compareAtPrice[1]))
               ELSE NULL
        [] k = "Status" -> p.status ]

\* C10: after a successful update of a product page, every property of the
\* page has the value mapped from the source product of that update.
C10_UpdateOverwritesEveryProperty ==
  (lastOp.op = "update" /\ lastOp.ok /\ lastOp.at <= Len(allProducts)) =>
    \A k \in PropNames \ { "Last Synced At" } :
      store[lastOp.pid].props[k] = Mapped(allProducts[lastOp.at])[k]

\* the requests of the run that fetch source data
FetchSteps == { "fetch", "inventory", "fetchOrders" }

\* C11: a run fails only where a fetch request raised an error, never for a
\* record (a mapping error included); a run that has completed has exit code
\* 0; and no lookup is made before the whole product collection is fetched.
C11_OnlyFetchErrorsFail ==
  /\ pc = "failed" => fatal[1] \in FetchSteps /\ fatal[2] # "mapping"
  /\ pc = "done" => exitCode = 0
  /\ lookups > 0 => ~hasNextPage /\ Len(allProducts) = Len(source)

\* C12: the count of the final summary of the GraphQL sync is the number of
\* records whose create or update succeeded in the run.
C12_SummaryCountsSuccesses ==
  (pc = "done" /\ path = "graphql") =>
    synced = writes - Cardinality(rejected)

\* the two characters are the same letter, whatever their case
SameLetter(a, b) == toLowerCase(<< a >>) = toLowerCase(<< b >>)

\* the text is set and contains the keyword, case-insensitively
Contains(text, keyword) ==
  /\ text # NULL
  /\ \E o \in 0..(Len(text[1]) - Len(keyword)) :
       \A j \in 1..Len(keyword) : SameLetter(text[1][o + j], keyword[j])

\* the first field, in the order title, vendor, type, tags, SKU, that
\* contains the keyword
FirstField(p, keyword) ==
  IF Contains(p.title, keyword) THEN "title"
  ELSE IF Contains(p.vendor, keyword) THEN "vendor"
  ELSE IF Contains(p.type, keyword) THEN "type"
  ELSE IF \E t \in 1..Len(p.tags) : Contains(Some(p.tags[t]), keyword)
    THEN "tags"
  ELSE IF \E v \in 1..Len(p.variants) : Contains(p.variants[v].sku, keyword)
    THEN "sku"
  ELSE "unknown"

\* C13: every product of the source search reports as matchedOn the first
\* field, in the order title, vendor, type, tags, SKU, that contains the
\* keyword case-insensitively, and 'unknown' when none does.
C13_MatchedOnFirstField ==
  \A i \in 1..Len(searchResults.shopify) :
    searchResults.shopify[i].matchedOn =
      FirstField(searchResults.shopify[i], args.keyword)

\* a product whose title and vendor both contain the keyword, in another
\* case, reports 'title'
C13_Witness ==
  /\ sp = "done"
  /\ args.keyword = << "a" >>
  /\ \E i \in 1..Len(searchResults.shopify) :
       /\ searchResults.shopify[i].title = Some(<< "A" >>)
       /\ searchResults.shopify[i].vendor = Some(<< "A" >>)
       /\ searchResults.shopify[i].matchedOn = "title"

\* the collection lookup has been sent
CollectionAsked ==
  \E i \in 1..Len(sent) : sent[i].op = "collectionByHandle"

\* non-empty, and only lowercase letters, digits and hyphens
LooksLikeHandle(keyword) ==
  /\ keyword # <<>>
  /\ \A i \in 1..Len(keyword) :
       \/ keyword[i] \in LowerCase
       \/ keyword[i] \in Digits
       \/ keyword[i] = "-"

\* C14: once the two searches have returned, the collection lookup has been
\* issued if and only if the keyword is non-empty and consists only of
\* lowercase letters, digits and hyphens; before that it has not been issued.
C14_CollectionLookupIffHandle ==
  /\ sp \in { "collection", "done" } =>
       (CollectionAsked <=> LooksLikeHandle(args.keyword))
  /\ sp \in { "start", "searching" } => ~CollectionAsked
  /\ (args.keyword = SummerSaleBang) => ~CollectionAsked

\* the search for 'summer-sale' has looked the collection up
C14_Witness ==
  /\ sp = "done"
  /\ args.keyword = SummerSale
  /\ CollectionAsked
  /\ Len(searchResults.collection) = 1

\* C15: the syncStatus of the summary counts the distinct ids found in both
\* lists, the distinct source ids absent from the target list and the
\* distinct target ids absent from the source list.
C15_SyncStatusIsSetOverlap ==
  sp = "done" =>
    LET S == Ids(searchResults.shopify)
        N == Ids(searchResults.notion)
        status == searchResults.summary[1].syncStatus
    IN  /\ status.inBoth = Cardinality(S \cap N)
        /\ status.shopifyOnly = Cardinality(S \ N)
        /\ status.notionOnly = Cardinality(N \ S)

\* the requests sent to a system
SentTo(system) == { i \in 1..Len(sent) : sent[i].to = system }

\* C16: with --notion-only no request is sent to the source system, with
\* --shopify-only no request is sent to the target workspace.
C16_OnlyFlagsRestrictRequests ==
  /\ "--notion-only" \in args.flags => SentTo("Shopify") = {}
  /\ "--shopify-only" \in args.flags => SentTo("Notion") = {}

\* the position of the '>' that closes the tag opened at s[1], when a '>'
\* inside a quoted attribute value does not close it; 0 when there is none
RECURSIVE QuotedEnd(_, _, _)
QuotedEnd(s, i, quoted) ==
  IF i > Len(s) THEN 0
  ELSE IF s[i] = "'" THEN QuotedEnd(s, i + 1, ~quoted)
  ELSE IF s[i] = ">" /\ ~quoted THEN i
  ELSE QuotedEnd(s, i + 1, quoted)

\* the end of the markup tag opened at s[1]: the closing '>', or with no
\* such '>' (a quote left open) the first '>'; 0 when s[1] opens no tag
TagEnd(s) ==
  IF QuotedEnd(s, 2, FALSE) # 0 THEN QuotedEnd(s, 2, FALSE)
  ELSE IF \E j \in 2..Len(s) : s[j] = ">"
    THEN CHOOSE j \in 2..Len(s) : s[j] = ">" /\ \A k \in 2..(j - 1) : s[k] # ">"
    ELSE 0

\* the HTML text with every markup tag removed
RECURSIVE WithoutTags(_)
WithoutTags(s) ==
  IF s = <<>> THEN <<>>
  ELSE IF Head(s) = "<" /\ TagEnd(s) # 0
    THEN WithoutTags(SubSeq(s, TagEnd(s) + 1, Len(s)))
    ELSE << Head(s) >> \o WithoutTags(Tail(s))

\* C17: the Description is the source HTML with every markup tag removed,
\* cut to its first DescLimit characters when it is longer; and
\* '<p>Hello <b>world</b></p>' gives 'Hello world'.
C17_DescriptionIsStrippedAndCut ==
  (mapIn.fn = "Description" /\ mapOut # <<>>) =>
    LET text == WithoutTags(IF mapIn.html = NULL THEN <<>> ELSE mapIn.html[1])
    IN  /\ mapOut[1] = SubSeq(text, 1, Min(Len(text), DescLimit))
        /\ mapIn.html = Some(Hello) =>
             mapOut[1] = << "H", "e", "l", "l", "o", " ", "w", "o", "r", "l", "d" >>

\* C18: the Tags written by the GraphQL and by the REST mapper hold no entry
\* twice, every entry is trimmed and at most TagLength characters long, and
\* there are at most TagsLimit entries.
C18_TagsUniqueTrimmedCapped ==
  (mapIn.fn \in { "Tags", "RestTags" } /\ mapOut # <<>>) =>
    /\ \A a, b \in 1..Len(mapOut[1]) : mapOut[1][a] = mapOut[1][b] => a = b
    /\ \A a \in 1..Len(mapOut[1]) :
         /\ Len(mapOut[1][a]) <= TagLength
         /\ mapOut[1][a] # <<>> =>
              mapOut[1][a][1] # " " /\ mapOut[1][a][Len(mapOut[1][a])] # " "
    /\ Len(mapOut[1]) <= TagsLimit

\* the variant has a compare-at price
HasCompareAt(v) == v.compareAtPrice # NULL /\ v.compareAtPrice[1] # ""

\* C19: in the bag of every mapper, Default Variant Price is 0 when the
\* default variant's price is missing or unparseable and the parsed number
\* otherwise; Compare At Price is the parsed number when the default variant
\* has a compare-at price and is absent (null) when it has none.
C19_PricesMapped ==
  (mapIn.fn \in { "Prices", "RestPrices" } /\ mapOut # <<>>) =>
    LET v == firstVariant(mapIn.priced)
        bag == mapOut[1]
    IN  /\ "Default Variant Price" \in DOMAIN bag
        /\ bag["Default Variant Price"] =
             Some(IF v.price = NULL \/ parseFloat(v.price[1]) = NaN
                    THEN 0 ELSE parseFloat(v.price[1]))
        /\ IF HasCompareAt(v)
             THEN /\ "Compare At Price" \in DOMAIN bag
                  /\ bag["Compare At Price"] =
                       Some(parseFloat(v.compareAtPrice[1]))
             ELSE "Compare At Price" \in DOMAIN bag =>
                    bag["Compare At Price"] = NULL

\* the sum of 'available' over the levels
Available(levels) ==
  Sum([ l \in 1..Len(levels) |-> available(levels[l]) ])

\* C20: Current Stock is the sum of 'available' over all the levels reported
\* for the product's inventory items when levels are reported, and the
\* reported inventory quantity of the variant when none is, on the GraphQL
\* path and on the REST path.
C20_CurrentStockIsSumOrQuantity ==
  /\ (mapIn.fn = "calculateTotalInventory" /\ mapOut # <<>>) =>
       LET vs == mapIn.stocked
           reported == { i \in 1..Len(vs) : vs[i].inventoryLevels # NULL }
       IN  mapOut[1] =
             IF reported # {}
               THEN Sum([ i \in 1..Len(vs) |->
                            IF i \in reported
                              THEN Available(vs[i].inventoryLevels[1])
                              ELSE 0 ])
               ELSE vs[1].inventoryQuantity
  /\ (mapIn.fn = "RestCurrentStock" /\ mapOut # <<>>) =>
       mapOut[1] =
         IF mapIn.rest.levels # <<>>
           THEN Available(mapIn.rest.levels)
           ELSE mapIn.rest.variants[1].inventory_quantity

\* the fetch of the run has returned the collection
FetchDone == pc # "idle" /\ ~hasNextPage

\* pages a collection of n records is served in
PageCount(n) == IF n = 0 THEN 1 ELSE (n + PageSize - 1) \div PageSize

\* C21: a collection served in pages is fetched with one answered request
\* per page, the first without a cursor and each later one with the end
\* cursor of the page before; the fetch stops at the first page that signals
\* no further page and returns the pages concatenated in source order; an
\* empty collection takes a single request and the run ends without a write.
C21_FetchIsConcatenationOfPages ==
  /\ \A k \in 1..Len(requests) : requests[k] = (k - 1) * PageSize
  /\ Len(requests) <= PageCount(Len(source))
  /\ Len(allProducts) <= Len(source)
  /\ allProducts = SubSeq(source, 1, Len(allProducts))
  /\ FetchDone => /\ Len(requests) = PageCount(Len(source))
                  /\ allProducts = source
  /\ (pc = "done" /\ source = <<>> /\ allOrders = <<>>)
       => Len(requests) = 1 /\ writes = 0

\* both scripts have fetched a collection of two pages
C21_Witness ==
  /\ pc = "done"
  /\ Len(source) > PageSize
  /\ Len(requests) = PageCount(Len(source))
  /\ Len(requests) > 1
  /\ allProducts = source
  /\ prev.done
  /\ prev.path # path

\* a write to Notion has been issued and is not yet answered
WriteIssued == pc \in { "write", "writeOrder" }

\* C24: between two successive write attempts of a run (create or update)
\* lie at least 350 ms of delay, whether the earlier attempt succeeded or
\* failed.
C24_WritesAreSpaced ==
  (WriteIssued /\ writes > 1) => waited >= NotionDelay

\* C25: at most one request to Notion (lookup, create or update) is
\* outstanding at any moment; the lookup for record k+1 is issued only after
\* the upsert of record k has succeeded or failed, and the records are taken
\* in the order in which they were fetched: the k-th lookup of the run is the
\* one for the k-th record.
C25_OneRequestAtATime ==
  /\ Cardinality(inFlight) <= 1
  /\ \A r \in inFlight :
       /\ r[2] = IF pc \in { "lookupOrder", "writeOrder" } THEN orderAt ELSE idx
       /\ lookups = r[2]
       /\ (r[1] = "databases.query" /\ r[2] > 1)
            => lastOp.op # "none" /\ lastOp.at = r[2] - 1
  /\ pc \in { "lookup", "lookupOrder" }
       => \E r \in inFlight : r[1] = "databases.query"
  /\ WriteIssued
       => \E r \in inFlight : r[1] \in { "pages.create", "pages.update" }

\* the lookup for the second record is outstanding after the write for the
\* first one was rejected
C25_Witness ==
  /\ pc = "lookup"
  /\ inFlight = { Call("databases.query", 2) }
  /\ lastOp.at = 1
  /\ ~lastOp.ok

\* two fetched products carry one external id and no call of the run has
\* failed so far
SameIdTwice ==
  /\ Len(allProducts) = 2
  /\ ~hasNextPage
  /\ allProducts[1].id # 0
  /\ allProducts[1].id = allProducts[2].id
  /\ lookupFailed = {}
  /\ rejected = {}
  /\ fatal # <<>> => fatal[2] = "mapping"

\* the property bag the running script builds for product p, the time aside
Bag(p) ==
  LET bag == IF path = "graphql" THEN GraphQLProperties(p, 0)
                                 ELSE RestProperties(p, 0)
  IN  [ k \in DOMAIN bag \ { "Last Synced At" } |-> bag[k] ]

\* C28: when two products of one fetched collection carry the same external
\* id and every API call succeeds, no error or conflict is raised for the
\* second one: it is written as an update, and afterwards the store holds one
\* page for the id, the page that update wrote, with the second product's
\* mapped fields.
C28_SecondOfSameIdUpdates ==
  /\ (SameIdTwice /\ pc = "failed") => fatal[2] = "mapping"
  /\ (SameIdTwice /\ lastOp.at = 2) =>
       /\ lastOp.op = "update"
       /\ lastOp.ok
       /\ PagesOf(store, IdString(allProducts[2].id)) = { lastOp.pid }
       /\ \A k \in DOMAIN Bag(allProducts[2]) :
            store[lastOp.pid].props[k] = Bag(allProducts[2])[k]

\* position, among the records of the run, of the record being upserted
Position == IF pc \in { "lookupOrder", "writeOrder" } THEN orderAt ELSE idx

\* C29: a rejected existence lookup is swallowed and reported as "not found"
\* (findNotionProduct and findNotionOrder alike): the upsert goes on and
\* issues a create for that record; the record is not skipped and the run
\* does not fail for the lookup.
C29_FailedLookupLeadsToCreate ==
  /\ \A k \in lookupFailed :
       /\ (WriteIssued /\ Position = k)
            => existingPage = 0 /\ inFlight = { Call("pages.create", k) }
       /\ lastOp.at = k => lastOp.op = "create"
  /\ (lookupFailed # {} /\ pc = "failed")
       => fatal[2] = "mapping" \/ fatal[1] = "fetchOrders"
  /\ (lookupFailed # {} /\ pc = "done") => writes = Total

\* the page of product 1 was not found because the lookup was rejected, and
\* the create that followed has left two pages for the id
C29_Witness ==
  /\ 1 \in lookupFailed
  /\ lastOp = [ op |-> "create", ok |-> TRUE, pid |-> 2, at |-> 1 ]
  /\ Count(startStore, "1") = 1
  /\ Count(store, "1") = 2

\* the requests sent so far
Sent == { sent[i] : i \in 1..Len(sent) }

\* C27: unifiedSearch has issued the searches of both systems before it awaits
\* either; the collection lookup is started and the summary computed only
\* when both searches have completed, so the summary is computed from the
\* final result lists.
C27_SummaryAfterBothSearches ==
  /\ sp = "searching" =>
       /\ ~options.skipShopify => Request("Shopify", "products") \in Sent
       /\ ~options.skipNotion => Request("Notion", "databases.query") \in Sent
  /\ pending # {} => ~CollectionAsked /\ searchResults.summary = NULL
  /\ pending \subseteq { r.to : r \in Sent }
  /\ sp = "done" =>
       /\ pending = {}
       /\ searchResults.summary = Some(summary(searchResults))

\* both searches were issued and have returned hits, and the summary counts
\* both lists
C27_Witness ==
  /\ sp = "done"
  /\ Request("Shopify", "products") \in Sent
  /\ Request("Notion", "databases.query") \in Sent
  /\ Len(searchResults.shopify) > 0
  /\ Len(searchResults.notion) > 0
  /\ searchResults.summary # NULL
  /\ searchResults.summary[1].totalResults >=
       Len(searchResults.shopify) + Len(searchResults.notion)

\* positions of trace that hold a response, and those of one status
Answers == { i \in 1..Len(trace) : trace[i].ev = "response" }

AnswersOf(status) == { i \in Answers : trace[i].response.status = status }

Max(a, b) == IF a > b THEN a ELSE b

\* C22: shopifyAPICall sends its request at most 3 times, always the same
\* one; after each 429 it sleeps the retry-after number of seconds, 2 without
\* the header, and sends again while attempts are left; it returns the data
\* of the first attempt that succeeds, raises 'Max retries reached' when all
\* 3 attempts got a 429, and raises at once on any other error.
C22_AtMostThreeAttempts ==
  call.fn = "shopifyAPICall" =>
    /\ Sends <= 3
    /\ \A i \in 1..Len(trace) :
         trace[i].ev = "send" => trace[i].request = call.request
    /\ \A i \in AnswersOf(429) :
         /\ i < Len(trace)
         /\ trace[i + 1] =
              Delay(Whole(1000 * (IF trace[i].response.retryAfter = NULL
                                    THEN 2
                                    ELSE ToNumber(trace[i].response.retryAfter[1]))))
         /\ Cardinality({ j \in AnswersOf(429) : j <= i }) < 3
              => i + 2 <= Len(trace) /\ trace[i + 2].ev = "send"
    /\ hp = "awaiting" =>
         /\ Cardinality(AnswersOf(429)) < 3
         /\ Answers = AnswersOf(429)
    /\ hp = "returned" =>
         /\ AnswersOf(200) = { Len(trace) }
         /\ Answers \ AnswersOf(429) = { Len(trace) }
         /\ outcome = Some([ raised |-> FALSE, message |-> "",
                             response |-> trace[Len(trace)].response ])
    /\ hp = "raised" =>
         /\ outcome[1].raised
         /\ IF Answers = AnswersOf(429)
              THEN /\ Cardinality(Answers) = 3
                   /\ Sends = 3
                   /\ outcome[1].message = "Max retries reached for Shopify API"
              ELSE /\ Answers \ AnswersOf(429) = { Len(trace) }
                   /\ trace[Len(trace)].response.status # 200
                   /\ outcome[1].response = trace[Len(trace)].response
                   /\ outcome[1].message # "Max retries reached for Shopify API"

\* three attempts were answered 429, one with retry-after 5 and one without
\* the header, and the call has raised
C22_Witness ==
  /\ call.fn = "shopifyAPICall"
  /\ hp = "raised"
  /\ Sends = 3
  /\ Cardinality(AnswersOf(429)) = 3
  /\ \E i, j \in 1..Len(trace) :
       trace[i] = Delay(Whole(5000)) /\ trace[j] = Delay(Whole(2000))

\* C23: after a GraphQL response that reports the available budget a and the
\* restore rate r, shopifyGraphQL sleeps before it returns exactly when
\* a < 500, and then for max(100, (500 - a) / r * 1000) ms: 8000 ms for
\* a = 100 and r = 50, no wait for a >= 500.
C23_WaitFollowsBudget ==
  \A i \in AnswersOf(200) :
    (call.fn = "shopifyGraphQL" /\ ~trace[i].response.errors
       /\ trace[i].response.cost # NULL) =>
      LET a == trace[i].response.cost[1].currentlyAvailable
          r == trace[i].response.cost[1].restoreRate
      IN  /\ hp = "returned"
          /\ IF a < 500
               THEN /\ i + 1 = Len(trace)
                    /\ trace[i + 1].ev = "delay"
                    /\ trace[i + 1].ms[1] * r =
                         Max(100 * r, (500 - a) * 1000) * trace[i + 1].ms[2]
               ELSE i = Len(trace)
          /\ (a = 100 /\ r = 50) => trace[Len(trace)] = Delay(Whole(8000))

\* the response reported a = 100 and r = 50 and the call slept 8000 ms
C23_Witness ==
  /\ hp = "returned"
  /\ Len(trace) >= 2
  /\ trace[Len(trace)] = Delay(Whole(8000))
  /\ trace[Len(trace) - 1].response.cost =
       Some([ currentlyAvailable |-> 100, restoreRate |-> 50 ])

\* C26: a GraphQL response with an errors field makes shopifyGraphQL raise
\* 'GraphQL query failed' without sending the request again; the error
\* leaves fetchAllProducts and the run ends with a non-zero exit code.
C26_QueryErrorsAreFatal ==
  \A i \in AnswersOf(200) :
    trace[i].response.errors =>
      /\ i = Len(trace)
      /\ hp = "raised"
      /\ outcome = Some([ raised |-> TRUE, message |-> "GraphQL query failed",
                          response |-> NoResponse ])
      /\ exitCode > 0

\* the second attempt, after a 429, was answered with an errors field
C26_Witness ==
  /\ call.fn = "shopifyGraphQL"
  /\ hp = "raised"
  /\ Sends = 2
  /\ trace[Len(trace)].response.errors
  /\ outcome[1].message = "GraphQL query failed"
  /\ exitCode = 1

\* C30: a 429 makes shopifyGraphQL wait 2000 ms and send the same query with
\* the same variables again, however many attempts there have been; the call
\* never raises for a 429, it ends with the first answer that is not a 429,
\* and while every answer is a 429 it does not end.
C30_RateLimitRetriedWithoutBound ==
  call.fn = "shopifyGraphQL" =>
    /\ \A i \in AnswersOf(429) :
         /\ i + 2 <= Len(trace)
         /\ trace[i + 1] = Delay(Whole(2000))
         /\ trace[i + 2] = Send(call.request)
    /\ Answers = AnswersOf(429) => hp \in { "called", "awaiting" }
    /\ hp \in { "returned", "raised" } =>
         /\ Cardinality(Answers \ AnswersOf(429)) = 1
         /\ \A i \in Answers \ AnswersOf(429) :
              /\ \A j \in AnswersOf(429) : j < i
              /\ Sends = Cardinality(AnswersOf(429)) + 1
              /\ (hp = "returned") =
                   (trace[i].response.status = 200 /\ ~trace[i].response.errors)
              /\ hp = "returned" => outcome[1].response = trace[i].response

\* more attempts than shopifyAPICall would make: every one but the last was
\* answered 429 and the call has returned the data of the last
C30_Witness ==
  /\ call.fn = "shopifyGraphQL"
  /\ hp = "returned"
  /\ Sends > Retries
  /\ Cardinality(AnswersOf(429)) = Sends - 1

====
